---- MODULE Spec2Model ----
(***************************************************************************)
(* Model of server/controllers/busController.ts: the request handlers      *)
(* updateBus, deleteBus, updateBusLocation and getBusTrackingInfo running  *)
(* concurrently against one Bus document, the Station collection and the   *)
(* OSRM routing service.  Every await in a handler is a step boundary; the *)
(* code between two awaits runs without interruption (one JS thread).      *)
(***************************************************************************)
EXTENDS Integers, Sequences, FiniteSets, TLC

VARIABLES
    bus,          \* the persisted Bus document, or NoBus once deleted
    stationDocs,  \* ids of the documents held by the Station collection
    clock,        \* the last value read from the wall clock (new Date())
    req,          \* per request slot: the handler's arguments, locals, position and response
    started       \* number of requests accepted so far

vars == <<bus, stationDocs, clock, req, started>>

----------------------------------------------------------------------------
(* Bounds of the model *)

\* number of requests accepted in one behaviour
MaxReq == 2
\* largest number of keys in one proposed update body
MaxFields == 1

\* request slots: at most two handlers are in flight at once
Procs == {1, 2}

----------------------------------------------------------------------------
(* Values *)

\* JS null / undefined in an id or number position
Null == -1
\* an oracle promise that has not settled yet
Pending == -2
\* an oracle promise that was rejected
Failed == -3

NoBus == [exists |-> FALSE]

\* Station ids A, B, C of the route A -> B -> C
StationIds == {1, 2, 3}
FullRoute == <<1, 2, 3>>

\* reported positions <<lat, lng>>; the second one has a latitude above 90
Positions == {<<10, 20>>, <<91, 20>>}

\* what OSRMService.calculateETA can resolve to, in seconds
DurationResults == {170, 300}
\* what OSRMService.calculateDistance can resolve to, in tenths of a metre
DistanceResults == {15004}

\* keys a request body of updateBus may carry
Keys == {"status", "schedule.departureTime", "route.estimatedTime",
         "route.stations", "routeNumber", "currentStationId"}

\* the value sent under key k
FieldValue(k) ==
    CASE k = "status" -> "ACTIVE"
      [] k = "schedule.departureTime" -> 7
      [] k = "route.estimatedTime" -> 7
      [] k = "route.stations" -> <<1, 3>>
      [] k = "routeNumber" -> 12
      [] k = "currentStationId" -> 3

KeySets == {S \in SUBSET Keys : Cardinality(S) <= MaxFields}

Actors == {[role |-> "SYSTEM_ADMIN", stationId |-> Null],
           [role |-> "STATION_ADMIN", stationId |-> Null],
           [role |-> "STATION_ADMIN", stationId |-> 2]}

----------------------------------------------------------------------------
(* Pure helpers *)

Range(s) == {s[i] : i \in 1..Len(s)}

\* Array.prototype.findIndex with an equality predicate, 0-based, -1 if absent
FindIndex(s, x) ==
    IF \E i \in 1..Len(s) : s[i] = x
    THEN (CHOOSE i \in 1..Len(s) : s[i] = x /\ \A j \in 1..(i - 1) : s[j] # x) - 1
    ELSE -1

\* s[i] for a 0-based index, undefined (Null) out of range
At(s, i) == IF i >= 0 /\ i < Len(s) THEN s[i + 1] ELSE Null

\* String.prototype.startsWith
StartsWith(s, prefix) ==
    Len(s) >= Len(prefix) /\ SubSeq(s, 1, Len(prefix)) = prefix

\* Math.floor(num / den) in the place of Math.round
MathFloor(num, den) == num \div den

\* Math.round(num / den) for den > 0: the nearest integer, halves towards +infinity
MathRound(num, den) == (2 * num + den) \div (2 * den)

----------------------------------------------------------------------------
(* The store *)

\* the document createBus builds and saves
NewBus(route, status, now) ==
    [exists |-> TRUE,
     routeNumber |-> 11,
     route |-> route,
     schedule |-> [departureTime |-> now, arrivalTime |-> now],
     currentLocation |-> <<0, 0>>,
     status |-> status,
     currentStationId |-> Null,
     lastUpdateTime |-> now]

\* route of a bus created without one
DefaultRoute == [stations |-> <<>>, estimatedTime |-> 0]

\* populate('route.stations') and populate('currentStationId'): ids whose Station
\* document is missing are dropped from the array, a missing single reference is null
Populate(b) ==
    [b EXCEPT !.route.stations =
                  SelectSeq(b.route.stations, LAMBDA s : s \in stationDocs),
              !.currentStationId =
                  IF b.currentStationId \in stationDocs THEN b.currentStationId ELSE Null]

\* Station.findById(id).lean(): the id of the document found, or Null
FindStation(id) == IF id \in stationDocs THEN id ELSE Null

\* findByIdAndUpdate's $set of one key of the update body
SetField(b, k, val) ==
    CASE k = "status" -> [b EXCEPT !.status = val]
      [] k = "schedule.departureTime" -> [b EXCEPT !.schedule.departureTime = val]
      [] k = "route.estimatedTime" -> [b EXCEPT !.route.estimatedTime = val]
      [] k = "route.stations" -> [b EXCEPT !.route.stations = val]
      [] k = "routeNumber" -> [b EXCEPT !.routeNumber = val]
      [] k = "currentStationId" -> [b EXCEPT !.currentStationId = val]

RECURSIVE SetFields(_, _, _)
SetFields(b, data, ks) ==
    IF ks = {} THEN b
    ELSE LET k == CHOOSE x \in ks : TRUE
         IN SetFields(SetField(b, k, data[k]), data, ks \ {k})

\* findByIdAndUpdate(id, updateData): every key of the body is $set
ApplyUpdate(b, data) == SetFields(b, data, DOMAIN data)

\* a save that writes the whole document back as the handler holds it in memory
SaveWholeDocument(b, loaded, assigned) ==
    [b EXCEPT !.route = assigned.route,
              !.status = assigned.status,
              !.currentStationId = assigned.currentStationId,
              !.currentLocation = assigned.currentLocation,
              !.lastUpdateTime = assigned.lastUpdateTime]

\* a save that also moves the stored current stop on to the stop that follows it
SaveAdvancing(b, loaded, assigned) ==
    [b EXCEPT !.currentLocation = assigned.currentLocation,
              !.lastUpdateTime = assigned.lastUpdateTime,
              !.route.estimatedTime = assigned.route.estimatedTime,
              !.currentStationId =
                  At(b.route.stations, FindIndex(b.route.stations, b.currentStationId) + 1)]

\* bus.save(): only the paths whose assigned value differs from the value the
\* document was loaded with are sent to the store
SaveModified(b, loaded, assigned) ==
    [b EXCEPT !.currentLocation =
                  IF assigned.currentLocation # loaded.currentLocation
                  THEN assigned.currentLocation ELSE @,
              !.lastUpdateTime =
                  IF assigned.lastUpdateTime # loaded.lastUpdateTime
                  THEN assigned.lastUpdateTime ELSE @,
              !.route.estimatedTime =
                  IF assigned.route.estimatedTime # loaded.route.estimatedTime
                  THEN assigned.route.estimatedTime ELSE @]

\* the values new Date() can return after the clock last read `t`
ClockReadings(t) == {t, t + 1}

\* the paths of the stored document that the tracking handlers read
Load(b) ==
    IF b.exists
    THEN [exists |-> TRUE, route |-> b.route, status |-> b.status,
          currentStationId |-> b.currentStationId,
          currentLocation |-> b.currentLocation, lastUpdateTime |-> b.lastUpdateTime]
    ELSE NoBus

----------------------------------------------------------------------------
(* Request slots *)

EmptyFields == [k \in {} |-> Null]
NoBody == [sent |-> FALSE]

IdleReq ==
    [op |-> "idle", pc |-> "idle",
     role |-> "", stationId |-> Null, proposed |-> EmptyFields, updateData |-> EmptyFields,
     lat |-> 0, lng |-> 0,
     doc |-> NoBus, nextStationId |-> Null, eta |-> Null, distance |-> Null, oracleCalls |-> 0,
     wrote |-> FALSE, code |-> 0, body |-> NoBody]

\* res.status(code).json(...) without a snapshot or document of interest
Respond(r, code) == [r EXCEPT !.pc = "done", !.code = code]

\* res.json(body)
RespondJson(r, body) == [r EXCEPT !.pc = "done", !.code = 200, !.body = body]

\* a new request is accepted into the lowest free slot
CanStart(p) ==
    /\ req[p].pc = "idle"
    /\ started < MaxReq
    /\ \A q \in Procs : q < p => req[q].pc # "idle"

\* One bus as createBus saves it, without a route or with the route A -> B -> C and
\* its estimated time of 5 minutes; on the route its current station is unset or has
\* been set to one of the three stops.
\* The Station collection holds all three stops, or has lost the document of B.
Init ==
    /\ \/ bus = NewBus(DefaultRoute, "INACTIVE", 0)
       \/ \E cur \in StationIds \cup {Null} :
            bus = [NewBus([stations |-> FullRoute, estimatedTime |-> 5], "INACTIVE", 0)
                       EXCEPT !.currentStationId = cur]
    /\ stationDocs \in {{1, 2, 3}, {1, 3}}
    /\ clock = 0
    /\ req = [p \in Procs |-> IdleReq]
    /\ started = 0

----------------------------------------------------------------------------
(* Route progress, as both tracking handlers compute it *)

\* a current station that is not found counted as the first stop of the route
CurrentStationIndexFromStart(doc) ==
    IF FindIndex(doc.route.stations, doc.currentStationId) = -1
    THEN 0
    ELSE FindIndex(doc.route.stations, doc.currentStationId)

\* findIndex of the current station in the route's stations (?? -1)
CurrentStationIndex(doc) == FindIndex(doc.route.stations, doc.currentStationId)

\* the next station taken modulo the length of the route, as on a circular line
NextStationIdCircular(doc) ==
    IF CurrentStationIndex(doc) >= 0
    THEN At(doc.route.stations, (CurrentStationIndex(doc) + 1) % Len(doc.route.stations))
    ELSE Null

\* the next station taken without the test for an index that was found
NextStationIdUnguarded(doc) == At(doc.route.stations, CurrentStationIndex(doc) + 1)

\* currentStationIndex >= 0 ? stations[currentStationIndex + 1] : undefined
NextStationId(doc) ==
    IF CurrentStationIndex(doc) >= 0
    THEN At(doc.route.stations, CurrentStationIndex(doc) + 1)
    ELSE Null

\* the initial trackingData / trackingInfo object: everything about the next stop is null
InitialTracking(doc, location) ==
    [sent |-> TRUE,
     location |-> location,
     status |-> doc.status,
     currentStation |-> doc.currentStationId,
     nextStation |-> Null,
     eta |-> Null,
     distanceToNext |-> Null]

\* the spread that fills in the next stop once both oracle values are there
WithEstimate(tracking, nextStationDoc, eta, distance) ==
    [tracking EXCEPT !.nextStation = nextStationDoc,
                     !.eta = MathRound(eta, 60),
                     !.distanceToNext = MathRound(distance, 10)]

\* lastUpdateTime taken from a device timestamp that lags the server clock by a tick
AssignTrackingObservedAt(doc, lat, lng, now, eta) ==
    [doc EXCEPT !.currentLocation = <<lng, lat>>,
                !.lastUpdateTime = now - 1,
                !.route.estimatedTime = MathRound(eta, 60)]

\* the in-memory document after the assignments that precede bus.save()
AssignTracking(doc, lat, lng, now, eta) ==
    [doc EXCEPT !.currentLocation = <<lng, lat>>,
                !.lastUpdateTime = now,
                !.route.estimatedTime = MathRound(eta, 60)]

\* the bus document as the handler of request r holds it: r.doc is the stored
\* document that Bus.findById read, getBusTrackingInfo chains the two populates
Loaded(r) == IF r.op = "getBusTrackingInfo" THEN Populate(r.doc) ELSE r.doc

\* the location a handler reports in its snapshot
ReportedLocation(r) ==
    IF r.op = "updateBusLocation"
    THEN [lat |-> r.lat, lng |-> r.lng]
    ELSE [lat |-> r.doc.currentLocation[2], lng |-> r.doc.currentLocation[1]]

\* the request with the handler's local nextStationId computed from its document
WithNextStation(r) ==
    [r EXCEPT !.nextStationId = IF r.doc.exists THEN NextStationId(Loaded(r)) ELSE Null]

\* trackingData / trackingInfo as first built by the handler of request r
Tracking(r) == InitialTracking(Loaded(r), ReportedLocation(r))

\* trackingData / trackingInfo after the spread that follows both OSRM results
TrackingWithEstimate(r) ==
    WithEstimate(Tracking(r), FindStation(r.nextStationId), r.eta, r.distance)

----------------------------------------------------------------------------
(* updateBusLocation *)

\* Bus.findById, then the synchronous code up to the first await or the response
LocFind(p) ==
    /\ CanStart(p)
    /\ \E pos \in Positions :
        LET r == WithNextStation([IdleReq EXCEPT !.op = "updateBusLocation",
                                                 !.lat = pos[1], !.lng = pos[2],
                                                 !.doc = Load(bus)])
        IN req' = [req EXCEPT ![p] =
                IF ~bus.exists THEN Respond(r, 404)
                ELSE IF r.nextStationId = Null
                     THEN RespondJson(r, Tracking(r))
                     ELSE [r EXCEPT !.pc = "station"]]
    /\ started' = started + 1
    /\ UNCHANGED <<bus, stationDocs, clock>>


\* Station.findById(nextStationId); without a document the snapshot goes out as it
\* is, with one both OSRM calls are started (shared by both tracking handlers)
FindNextStation(p) ==
    /\ req[p].pc = "station"
    /\ req' = [req EXCEPT ![p] =
            IF FindStation(req[p].nextStationId) = Null
            THEN RespondJson(req[p], Tracking(req[p]))
            ELSE [req[p] EXCEPT !.pc = "oracle", !.eta = Pending, !.distance = Pending,
                                !.oracleCalls = 2]]
    /\ UNCHANGED <<bus, stationDocs, clock, started>>

\* OSRMService.calculateETA settles: a duration in seconds, or a rejection
SettleETA(p) ==
    /\ req[p].pc = "oracle"
    /\ req[p].eta = Pending
    /\ \E outcome \in DurationResults \cup {Failed} :
        req' = [req EXCEPT ![p].eta = outcome]
    /\ UNCHANGED <<bus, stationDocs, clock, started>>

\* OSRMService.calculateDistance settles: a distance, or a rejection
SettleDistance(p) ==
    /\ req[p].pc = "oracle"
    /\ req[p].distance = Pending
    /\ \E outcome \in DistanceResults \cup {Failed} :
        req' = [req EXCEPT ![p].distance = outcome]
    /\ UNCHANGED <<bus, stationDocs, clock, started>>

\* Promise.all rejects as soon as one of its promises rejects
AllRejected(r) == r.eta = Failed \/ r.distance = Failed
\* Promise.allSettled in the place of Promise.all: goes on once both have settled
AllSettled(r) == r.eta # Pending /\ r.distance # Pending

\* going on as soon as the duration is there, the only value the save needs
EtaFulfilled(r) == r.eta >= 0

\* Promise.all fulfils once every promise has fulfilled
AllFulfilled(r) == r.eta >= 0 /\ r.distance >= 0

\* the rejection of Promise.all lands in the handler's catch block
OracleRejected(p) ==
    /\ req[p].pc = "oracle"
    /\ AllRejected(req[p])
    /\ req' = [req EXCEPT ![p] = Respond(req[p], 400)]
    /\ UNCHANGED <<bus, stationDocs, clock, started>>

\* both values are there: assign, save, answer with the filled-in snapshot; a
\* document deleted in the meantime makes save() throw
LocSave(p) ==
    /\ req[p].pc = "oracle"
    /\ req[p].op = "updateBusLocation"
    /\ AllFulfilled(req[p])
    /\ \E now \in ClockReadings(clock) :
        LET r == req[p]
            assigned == AssignTracking(r.doc, r.lat, r.lng, now, r.eta)
        IN /\ clock' = now
           /\ IF bus.exists
              THEN /\ bus' = SaveModified(bus, r.doc, assigned)
                   /\ req' = [req EXCEPT ![p] = RespondJson([r EXCEPT !.wrote = TRUE],
                                                           TrackingWithEstimate(r))]
              ELSE /\ bus' = bus
                   /\ req' = [req EXCEPT ![p] = Respond(r, 400)]
    /\ UNCHANGED <<stationDocs, started>>

----------------------------------------------------------------------------
(* getBusTrackingInfo *)

\* Bus.findById with both populates, then the synchronous code after it
TrackFind(p) ==
    /\ CanStart(p)
    /\ LET r == WithNextStation([IdleReq EXCEPT !.op = "getBusTrackingInfo",
                                                !.doc = Load(bus)])
       IN req' = [req EXCEPT ![p] =
               IF ~bus.exists THEN Respond(r, 404)
               ELSE IF r.nextStationId = Null
                    THEN RespondJson(r, Tracking(r))
                    ELSE [r EXCEPT !.pc = "station"]]
    /\ started' = started + 1
    /\ UNCHANGED <<bus, stationDocs, clock>>

\* both values are there: answer with the filled-in snapshot, nothing is saved
TrackRespond(p) ==
    /\ req[p].pc = "oracle"
    /\ req[p].op = "getBusTrackingInfo"
    /\ AllFulfilled(req[p])
    /\ req' = [req EXCEPT ![p] = RespondJson(req[p], TrackingWithEstimate(req[p]))]
    /\ UNCHANGED <<bus, stationDocs, clock, started>>

----------------------------------------------------------------------------
(* updateBus *)

\* the role for which updateBus checks the station and filters the body
IsStationAdmin(role) == role = "STATION_ADMIN"

\* a station check that only looks for a route with stations
AssignedToSomeStation(doc, stationId) == doc.route.stations # <<>>

\* bus.route.stations.some(station => station._id.toString() === stationId.toString())
\* on the populated document
AssignedToStation(doc, stationId) ==
    \E i \in 1..Len(doc.route.stations) : doc.route.stations[i] = stationId

allowedFields == {"status", "schedule", "route.estimatedTime"}

\* a filter that keeps the listed keys only, without the two prefix tests
KeyInAllowedFields(key) == key \in allowedFields

\* the test a station admin's key has to pass to stay in the update body
KeyAllowed(key) ==
    \/ key \in allowedFields
    \/ StartsWith(key, "schedule.")
    \/ StartsWith(key, "route.")

\* Object.keys(updateData).reduce(...): the body restricted to the allowed keys
FilterUpdateData(data) == [k \in {x \in DOMAIN data : KeyAllowed(x)} |-> data[k]]

\* findByIdAndUpdate whose result goes to res.json without the test for null
FindByIdAndUpdateUnchecked(p, r, data) ==
    /\ bus' = IF bus.exists THEN ApplyUpdate(bus, data) ELSE bus
    /\ req' = [req EXCEPT ![p] =
           RespondJson([r EXCEPT !.updateData = data, !.wrote = bus.exists],
                       [sent |-> TRUE])]

\* findByIdAndUpdate(id, updateData, {new: true}) issued by the request with locals r,
\* and the response that follows it
FindByIdAndUpdate(p, r, data) ==
    IF bus.exists
    THEN /\ bus' = ApplyUpdate(bus, data)
         /\ req' = [req EXCEPT ![p] =
                RespondJson([r EXCEPT !.updateData = data, !.wrote = TRUE],
                            [sent |-> TRUE])]
    ELSE /\ bus' = bus
         /\ req' = [req EXCEPT ![p] = Respond([r EXCEPT !.updateData = data], 404)]

\* the request as it arrives: req.user and req.body
UpdateBusRequest(actor, data) ==
    [IdleReq EXCEPT !.op = "updateBus", !.role = actor.role,
                    !.stationId = actor.stationId, !.proposed = data]

\* a request by any role but the station admin goes straight to the write
UpdateBusUnrestricted(p) ==
    /\ CanStart(p)
    /\ \E actor \in Actors, S \in KeySets :
        /\ ~IsStationAdmin(actor.role)
        /\ LET data == [k \in S |-> FieldValue(k)]
           IN FindByIdAndUpdate(p, UpdateBusRequest(actor, data), data)
    /\ started' = started + 1
    /\ UNCHANGED <<stationDocs, clock>>

\* a station admin's request: the station check on the populated document, then the
\* filter; the write is a later step
UpdateBusCheck(p) ==
    /\ CanStart(p)
    /\ \E actor \in Actors, S \in KeySets :
        /\ IsStationAdmin(actor.role)
        /\ LET data == [k \in S |-> FieldValue(k)]
               r == UpdateBusRequest(actor, data)
           IN req' = [req EXCEPT ![p] =
                   IF actor.stationId = Null THEN Respond(r, 403)
                   ELSE IF ~bus.exists THEN Respond(r, 404)
                   ELSE IF ~AssignedToStation(Populate(bus), actor.stationId)
                        THEN Respond(r, 403)
                        ELSE [r EXCEPT !.pc = "write",
                                       !.updateData = FilterUpdateData(data)]]
    /\ started' = started + 1
    /\ UNCHANGED <<bus, stationDocs, clock>>

\* the station admin's findByIdAndUpdate with the filtered body
UpdateBusWrite(p) ==
    /\ req[p].pc = "write"
    /\ FindByIdAndUpdate(p, req[p], req[p].updateData)
    /\ UNCHANGED <<stationDocs, clock, started>>

----------------------------------------------------------------------------
(* deleteBus *)

\* Bus.findByIdAndDelete(id)
DeleteBus(p) ==
    /\ CanStart(p)
    /\ LET r == [IdleReq EXCEPT !.op = "deleteBus"]
       IN IF bus.exists
          THEN /\ bus' = NoBus
               /\ req' = [req EXCEPT ![p] = Respond([r EXCEPT !.wrote = TRUE], 200)]
          ELSE /\ bus' = bus
               /\ req' = [req EXCEPT ![p] = Respond(r, 404)]
    /\ started' = started + 1
    /\ UNCHANGED <<stationDocs, clock>>

----------------------------------------------------------------------------
(* The system *)

\* the response has gone out: the slot takes the next request
Recycle(p) ==
    /\ req[p].pc = "done"
    /\ started < MaxReq
    /\ req' = [req EXCEPT ![p] = IdleReq]
    /\ UNCHANGED <<bus, stationDocs, clock, started>>

Next ==
    \E p \in Procs :
        \/ LocFind(p)
        \/ FindNextStation(p)
        \/ SettleETA(p)
        \/ SettleDistance(p)
        \/ OracleRejected(p)
        \/ LocSave(p)
        \/ TrackFind(p)
        \/ TrackRespond(p)
        \/ UpdateBusUnrestricted(p)
        \/ UpdateBusCheck(p)
        \/ UpdateBusWrite(p)
        \/ DeleteBus(p)
        \/ Recycle(p)

Spec == Init /\ [][Next]_vars

----------------------------------------------------------------------------
(* Vocabulary of the properties *)

IsRecordPosition(r) == r.op = "updateBusLocation"
IsEstimate(r) == r.op = "getBusTrackingInfo"
IsProposeMutation(r) == r.op = "updateBus"

\* the request has been answered with a snapshot (HTTP 200 and a body)
ReturnedSnapshot(r) == r.pc = "done" /\ r.code = 200 /\ r.body.sent

\* a latitude within [-90, 90] and a longitude within [-180, 180]
ValidCoordinates(lat, lng) == lat >= -90 /\ lat <= 90 /\ lng >= -180 /\ lng <= 180

\* n is an integer nearest to num / den (den > 0): |n - num/den| <= 1/2
IsNearestInteger(n, num, den) ==
    /\ 2 * (n * den - num) <= den
    /\ 2 * (num - n * den) <= den

\* 0-based position of the stored current stop in the stored route, -1 if none
StoredIndex(b) ==
    IF \E i \in 1..Len(b.route.stations) : b.route.stations[i] = b.currentStationId
    THEN (CHOOSE i \in 1..Len(b.route.stations) :
              b.route.stations[i] = b.currentStationId) - 1
    ELSE -1

----------------------------------------------------------------------------
(* Properties *)

\* C1: a recordPosition pass whose duration query, distance query or both failed
\* still ends in success with the reported location written to the vehicle.
C1_OracleFailureStillRecorded ==
    \A p \in Procs :
        (/\ IsRecordPosition(req[p])
         /\ req[p].pc = "done"
         /\ req[p].oracleCalls > 0
         /\ (req[p].eta = Failed \/ req[p].distance = Failed))
        => (req[p].code = 200 /\ req[p].wrote)

\* C2: the two oracle results fail independently in the snapshot of recordPosition
\* and of the estimate: a failed duration with a good distance gives eta = null and
\* distanceToNext = round(distance); a failed distance with a good duration gives
\* distanceToNext = null and eta = round(duration / 60).
C2_FieldsFailIndependently ==
    \A p \in Procs :
        (/\ IsRecordPosition(req[p]) \/ IsEstimate(req[p])
         /\ req[p].pc = "done"
         /\ req[p].oracleCalls > 0)
        => /\ (req[p].eta = Failed /\ req[p].distance >= 0)
                => /\ ReturnedSnapshot(req[p])
                   /\ req[p].body.eta = Null
                   /\ IsNearestInteger(req[p].body.distanceToNext, req[p].distance, 10)
           /\ (req[p].distance = Failed /\ req[p].eta >= 0)
                => /\ ReturnedSnapshot(req[p])
                   /\ req[p].body.distanceToNext = Null
                   /\ IsNearestInteger(req[p].body.eta, req[p].eta, 60)

\* C3: a recordPosition call with coordinates outside the valid latitude/longitude
\* range issues no oracle query, writes nothing to the vehicle and is not answered
\* with success.
C3_InvalidCoordinatesFailFast ==
    \A p \in Procs :
        (IsRecordPosition(req[p]) /\ ~ValidCoordinates(req[p].lat, req[p].lng))
        => /\ req[p].oracleCalls = 0
           /\ ~req[p].wrote
           /\ req[p].pc = "done" => req[p].code = 400

\* the request of slot p is taken up in this step by one of the handlers in ops
Arrives(p, ops) == req[p].pc = "idle" /\ req'[p].op \in ops

\* C4: a station-level actor's mutation of a vehicle whose route does not include
\* the actor's station is denied (403) whatever fields it proposes, and the stored
\* vehicle is left as it was.
C4_OutOfScopeDenied ==
    [][\A p \in Procs :
        (/\ Arrives(p, {"updateBus"})
         /\ req'[p].role = "STATION_ADMIN"
         /\ bus.exists
         /\ req'[p].stationId \notin Range(bus.route.stations))
        => /\ req'[p].pc = "done"
           /\ req'[p].code = 403
           /\ ~req'[p].wrote
           /\ bus' = bus]_vars

C4_Witness ==
    \E p \in Procs :
        /\ IsProposeMutation(req[p])
        /\ req[p].role = "STATION_ADMIN"
        /\ req[p].stationId # Null
        /\ DOMAIN req[p].proposed = {"status"}
        /\ req[p].pc = "done"
        /\ req[p].code = 403
        /\ bus.exists
        /\ bus.route.stations # <<>>
        /\ req[p].stationId \notin Range(bus.route.stations)

\* the keys of a proposal that the allow-list of a station-level actor lets through:
\* status, schedule, and every key that begins with "schedule." or "route."
SurvivingKeys(data) ==
    {k \in DOMAIN data :
        \/ k = "status"
        \/ k = "schedule"
        \/ (Len(k) >= 9 /\ SubSeq(k, 1, 9) = "schedule.")
        \/ (Len(k) >= 6 /\ SubSeq(k, 1, 6) = "route.")}

\* the field set proposeMutation is to write for request r
ExpectedWrite(r) ==
    IF r.role = "STATION_ADMIN"
    THEN [k \in SurvivingKeys(r.proposed) |-> r.proposed[k]]
    ELSE r.proposed

\* C5: what proposeMutation writes is exactly the proposed fields for an unrestricted
\* actor and exactly the allow-listed ones for an eligible station-level actor, the
\* other keys being dropped without error; the write is made, and answered with
\* success, also when no key survives.
C5_WrittenFieldSet ==
    [][\A p \in Procs :
        /\ (IsProposeMutation(req'[p]) /\ req'[p].wrote /\ ~req[p].wrote)
            => /\ req'[p].updateData = ExpectedWrite(req'[p])
               /\ bus' = ApplyUpdate(bus, ExpectedWrite(req'[p]))
               /\ req'[p].code = 200
        /\ (req[p].pc = "write" /\ req'[p].pc = "done" /\ bus.exists)
            => req'[p].wrote]_vars

C5_Witness ==
    \E p, q \in Procs :
        /\ IsProposeMutation(req[p])
        /\ req[p].role = "STATION_ADMIN"
        /\ req[p].wrote
        /\ req[p].code = 200
        /\ DOMAIN req[p].proposed = {"routeNumber"}
        /\ req[p].updateData = EmptyFields
        /\ IsProposeMutation(req[q])
        /\ req[q].role = "STATION_ADMIN"
        /\ req[q].wrote
        /\ DOMAIN req[q].proposed = {"route.stations"}
        /\ DOMAIN req[q].updateData = {"route.stations"}
        /\ bus.exists
        /\ bus.route.stations = <<1, 3>>
        /\ bus.routeNumber = 11

\* C6: when the stored current stop is the last stop of the stored route,
\* recordPosition and the estimate answer at once with a snapshot whose nextStop,
\* eta and distanceToNext are null, and no oracle query is issued.
C6_EndOfRoute ==
    [][\A p \in Procs :
        (/\ Arrives(p, {"updateBusLocation", "getBusTrackingInfo"})
         /\ bus.exists
         /\ bus.route.stations # <<>>
         /\ bus.currentStationId = bus.route.stations[Len(bus.route.stations)])
        => /\ ReturnedSnapshot(req'[p])
           /\ req'[p].body.nextStation = Null
           /\ req'[p].body.eta = Null
           /\ req'[p].body.distanceToNext = Null
           /\ req'[p].oracleCalls = 0]_vars

C6_Witness ==
    \E p, q \in Procs :
        /\ IsRecordPosition(req[p])
        /\ IsEstimate(req[q])
        /\ \A x \in {p, q} :
            /\ ReturnedSnapshot(req[x])
            /\ req[x].doc.route.stations = FullRoute
            /\ req[x].doc.currentStationId = 3
            /\ req[x].body.currentStation = 3
            /\ req[x].body.nextStation = Null

\* the request of slot p makes its write to the store in this step
Writes(p) == req'[p].wrote /\ ~req[p].wrote

\* C7: every recordPosition call answered with a snapshot leaves the stored vehicle,
\* if it still exists, with currentLocation at the reported position and
\* lastUpdateTime at the time of the call; the end-of-route and the
\* current-stop-not-found passes included.
C7_SnapshotMeansRecorded ==
    [][\A p \in Procs :
        (/\ req[p].pc # "done"
         /\ IsRecordPosition(req'[p])
         /\ ReturnedSnapshot(req'[p])
         /\ bus'.exists)
        => /\ bus'.currentLocation = <<req'[p].lng, req'[p].lat>>
           /\ bus'.lastUpdateTime = clock']_vars

C9_EstimatedTimeRetained ==
    [][(bus.exists /\ bus'.exists)
        => /\ bus'.route.estimatedTime # Null
           /\ bus'.route.estimatedTime # bus.route.estimatedTime
                => \E p \in Procs :
                    /\ Writes(p)
                    /\ \/ IsProposeMutation(req'[p])
                       \/ /\ IsRecordPosition(req[p])
                          /\ req[p].eta \in DurationResults
                          /\ IsNearestInteger(bus'.route.estimatedTime, req[p].eta, 60)]_vars

C9_Witness ==
    \E p, q \in Procs :
        /\ IsRecordPosition(req[p])
        /\ req[p].pc = "done"
        /\ req[p].eta = Failed
        /\ req[p].code = 400
        /\ IsRecordPosition(req[q])
        /\ req[q].wrote
        /\ req[q].eta = 300
        /\ req[p].doc.route.estimatedTime = 5
        /\ bus.exists
        /\ bus.route.estimatedTime = 5

\* C10: with the stored current stop at index i of the stored route, a stop at i+1
\* that the Station collection holds, and both oracle queries fulfilled, the snapshot
\* of recordPosition and of the estimate has currentStop = the stop at i, nextStop =
\* the stop at i+1, eta = the duration in seconds over 60 rounded to the nearest
\* integer, and distanceToNext = the distance rounded to the nearest integer.
C10_FullSnapshot ==
    \A p \in Procs :
        LET r == req[p]
            stations == r.doc.route.stations
            i == StoredIndex(r.doc) + 1
        IN (/\ IsRecordPosition(r) \/ IsEstimate(r)
            /\ ReturnedSnapshot(r)
            /\ r.oracleCalls > 0
            /\ r.eta \in DurationResults
            /\ r.distance \in DistanceResults
            /\ i >= 1
            /\ i + 1 <= Len(stations)
            /\ stations[i + 1] \in stationDocs)
           => /\ r.body.currentStation = stations[i]
              /\ r.body.nextStation = stations[i + 1]
              /\ IsNearestInteger(r.body.eta, r.eta, 60)
              /\ IsNearestInteger(r.body.distanceToNext, r.distance, 10)

C10_Witness ==
    \E p, q \in Procs :
        /\ IsRecordPosition(req[p])
        /\ IsEstimate(req[q])
        /\ \A x \in {p, q} :
            /\ ReturnedSnapshot(req[x])
            /\ req[x].doc.route.stations = FullRoute
            /\ req[x].doc.currentStationId = 2
            /\ req[x].eta = 300
            /\ req[x].distance = 15004
            /\ req[x].body.currentStation = 2
            /\ req[x].body.nextStation = 3
            /\ req[x].body.eta = 5
            /\ req[x].body.distanceToNext = 1500

\* the stop that follows position i (0-based; -1 for a stop that was not found) in
\* the stop sequence R, Null for none
StopAfter(R, i) == IF i >= 0 /\ i + 1 < Len(R) THEN R[i + 2] ELSE Null

\* C11: for the route R a tracking handler holds and the index i of the current stop
\* in it, the next stop the handler computes is the stop at position i+1 exactly when
\* i+1 < length(R), and none otherwise; none also for the index -1 of a stop that
\* was not found.
C11_NextStop ==
    \A p \in Procs :
        LET r == req[p]
            R == Loaded(r).route.stations
            i == StoredIndex(Loaded(r))
        IN ((IsRecordPosition(r) \/ IsEstimate(r)) /\ r.doc.exists)
           => /\ (i >= 0 /\ i + 1 < Len(R)) <=> r.nextStationId # Null
              /\ r.nextStationId = StopAfter(R, i)
              /\ i = -1 => r.nextStationId = Null

\* the stored current stop is B and the Station document of B is gone: recordPosition
\* holds the route A, B, C with index 1 and takes C, the estimate holds the populated
\* route A, C without a current stop, index -1, and takes none
C11_Witness ==
    \E p, q \in Procs :
        /\ IsRecordPosition(req[p])
        /\ req[p].doc.exists
        /\ Loaded(req[p]).route.stations = FullRoute
        /\ StoredIndex(Loaded(req[p])) = 1
        /\ req[p].nextStationId = 3
        /\ IsEstimate(req[q])
        /\ req[q].doc.exists
        /\ Loaded(req[q]).route.stations = <<1, 3>>
        /\ StoredIndex(Loaded(req[q])) = -1
        /\ req[q].nextStationId = Null
        /\ ReturnedSnapshot(req[q])

\* C12: when the stored current-stop reference is unset, or is not one of the stored
\* route's stops, or the route has no stops, recordPosition and the estimate find no
\* index (-1) and complete at once as "not yet started": a successful snapshot with
\* nextStop, eta and distanceToNext null, never an error, and no oracle query.
C12_NotStartedIsNotAnError ==
    \A p \in Procs :
        LET r == req[p]
        IN (/\ IsRecordPosition(r) \/ IsEstimate(r)
            /\ r.doc.exists
            /\ \/ r.doc.currentStationId = Null
               \/ r.doc.currentStationId \notin Range(r.doc.route.stations)
               \/ r.doc.route.stations = <<>>)
           => /\ ReturnedSnapshot(r)
              /\ r.body.nextStation = Null
              /\ r.body.eta = Null
              /\ r.body.distanceToNext = Null
              /\ r.oracleCalls = 0

\* the route was cut to A, C while the current stop stayed B: the position report
\* that follows holds a stale current stop and is answered with the null snapshot
C12_Witness ==
    \E p, q \in Procs :
        /\ IsProposeMutation(req[q])
        /\ req[q].wrote
        /\ DOMAIN req[q].updateData = {"route.stations"}
        /\ IsRecordPosition(req[p])
        /\ req[p].doc.exists
        /\ req[p].doc.route.stations = <<1, 3>>
        /\ req[p].doc.currentStationId = 2
        /\ ReturnedSnapshot(req[p])
        /\ req[p].body.currentStation = 2
        /\ req[p].body.nextStation = Null

\* C13: proposeMutation keeps NotFound and AuthorizationDenied apart: for any actor
\* a vehicle that does not exist is answered NotFound (404), and an existing vehicle
\* whose route lacks a station-level actor's station is answered
\* AuthorizationDenied (403).
C13_NotFoundDistinctFromDenied ==
    [][\A p \in Procs :
        Arrives(p, {"updateBus"})
        => /\ ~bus.exists
                => (req'[p].pc = "done" /\ req'[p].code = 404)
           /\ (/\ bus.exists
               /\ req'[p].role = "STATION_ADMIN"
               /\ req'[p].stationId \notin Range(bus.route.stations))
                => (req'[p].pc = "done" /\ req'[p].code = 403)]_vars

\* a station-level actor that has no station assigned
IsUnassignedStationAdmin(r) == r.role = "STATION_ADMIN" /\ r.stationId = Null

\* C13 as amended: a station-level actor without a station is denied (403) before
\* the vehicle is looked up, whether it exists or not; for every other actor a
\* vehicle that does not exist is answered NotFound (404), and an existing vehicle
\* whose route lacks the station-level actor's station is answered
\* AuthorizationDenied (403).
C13_NotFoundUnlessUnassigned ==
    [][\A p \in Procs :
        Arrives(p, {"updateBus"})
        => /\ IsUnassignedStationAdmin(req'[p])
                => (req'[p].pc = "done" /\ req'[p].code = 403)
           /\ (~bus.exists /\ ~IsUnassignedStationAdmin(req'[p]))
                => (req'[p].pc = "done" /\ req'[p].code = 404)
           /\ (/\ bus.exists
               /\ req'[p].role = "STATION_ADMIN"
               /\ req'[p].stationId \notin Range(bus.route.stations))
                => (req'[p].pc = "done" /\ req'[p].code = 403)]_vars

\* the bus was deleted; the station admin of B is answered 404
C13_Witness ==
    \E p, q \in Procs :
        /\ req[q].op = "deleteBus"
        /\ req[q].wrote
        /\ ~bus.exists
        /\ IsProposeMutation(req[p])
        /\ req[p].role = "STATION_ADMIN"
        /\ req[p].stationId = 2
        /\ req[p].pc = "done"
        /\ req[p].code = 404

\* the two slots hold the only requests made so far, both of them position reports
OnlyPositionReports ==
    /\ started = Cardinality(Procs)
    /\ \A q \in Procs : IsRecordPosition(req[q])

\* C14: however two recordPosition calls on one vehicle interleave, the vehicle a
\* call leaves in the store is the one that call computed as a whole: currentLocation
\* is its reported position, lastUpdateTime its timestamp and the route's estimated
\* time its eta in minutes, never a field of the other call among them.
C14_NoMixedState ==
    [][\A p \in Procs :
        (OnlyPositionReports /\ Writes(p) /\ bus'.exists)
        => /\ bus'.currentLocation = <<req[p].lng, req[p].lat>>
           /\ bus'.lastUpdateTime = clock'
           /\ IsNearestInteger(bus'.route.estimatedTime, req[p].eta, 60)]_vars

\* C15: a recordPosition pass writes the vehicle to the store only after its duration
\* query and its distance query have both been issued and have both settled.
C15_WriteAfterBothSettled ==
    \A p \in Procs :
        (IsRecordPosition(req[p]) /\ req[p].wrote)
        => /\ req[p].oracleCalls = 2
           /\ req[p].eta # Pending
           /\ req[p].distance # Pending

\* one pass has written with both results in hand while the other, whose duration
\* has settled and whose distance is still awaited, has not written
C15_Witness ==
    \E p, q \in Procs :
        /\ IsRecordPosition(req[p])
        /\ req[p].wrote
        /\ req[p].eta \in DurationResults
        /\ req[p].distance \in DistanceResults
        /\ IsRecordPosition(req[q])
        /\ req[q].pc = "oracle"
        /\ req[q].eta \in DurationResults
        /\ req[q].distance = Pending
        /\ ~req[q].wrote

\* C16: two recordPosition calls on one vehicle that report the same position, with
\* no other request between or beside them to change the route or the current stop,
\* return snapshots with the same currentStop and the same nextStop.
C16_SamePositionSameStops ==
    \A p, q \in Procs :
        (/\ OnlyPositionReports
         /\ ReturnedSnapshot(req[p])
         /\ ReturnedSnapshot(req[q])
         /\ req[p].lat = req[q].lat
         /\ req[p].lng = req[q].lng)
        => /\ req[p].body.currentStation = req[q].body.currentStation
           /\ req[p].body.nextStation = req[q].body.nextStation

\* the second call loaded the vehicle as the first call had saved it; the snapshots
\* agree on the stops A and B and differ in the eta
C16_Witness ==
    \E p, q \in Procs :
        /\ OnlyPositionReports
        /\ ReturnedSnapshot(req[p])
        /\ ReturnedSnapshot(req[q])
        /\ req[p].wrote
        /\ req[q].wrote
        /\ req[p].lat = 10
        /\ req[q].lat = 10
        /\ req[p].doc.currentLocation = <<0, 0>>
        /\ req[q].doc.currentLocation = <<20, 10>>
        /\ req[p].body.currentStation = 1
        /\ req[q].body.currentStation = 1
        /\ req[p].body.nextStation = 2
        /\ req[q].body.nextStation = 2
        /\ req[p].body.eta = 3
        /\ req[q].body.eta = 5

\* C17: when the stored route names a next stop whose Station document does not
\* exist, recordPosition and the estimate end in NotFound (404), not in a successful
\* snapshot.
C17_MissingNextStopIsNotFound ==
    \A p \in Procs :
        LET r == req[p]
        IN (/\ IsRecordPosition(r) \/ IsEstimate(r)
            /\ r.doc.exists
            /\ StopAfter(r.doc.route.stations, StoredIndex(r.doc)) # Null
            /\ StopAfter(r.doc.route.stations, StoredIndex(r.doc)) \notin stationDocs
            /\ r.pc = "done")
           => (r.code = 404 /\ ~ReturnedSnapshot(r))

\* the request of slot p is a station-level actor's mutation
IsScopedMutation(r) == IsProposeMutation(r) /\ r.role = "STATION_ADMIN"

\* C18: no mutation proposed by a station-level actor changes the stop sequence of
\* the vehicle's route: the write of such a mutation leaves route.stations as it was.
C18_ScopedWriteKeepsStations ==
    [][\A p \in Procs :
        (IsScopedMutation(req'[p]) /\ Writes(p) /\ bus'.exists)
        => bus'.route.stations = bus.route.stations]_vars

\* C19: the write of a station-level actor's mutation lands only on a vehicle whose
\* route includes the actor's station at the moment of the write, whatever mutation
\* of the route runs beside it.
C19_ScopedWriteInScope ==
    [][\A p \in Procs :
        (IsScopedMutation(req'[p]) /\ Writes(p))
        => req'[p].stationId \in Range(bus.route.stations)]_vars

\* C20: a step of recordPosition neither creates nor deletes the vehicle and changes
\* at most its currentLocation, lastUpdateTime and route.estimatedTime; the current
\* stop, the status and the route's stop sequence stay as they are, so position
\* reports never advance the current stop.
C20_RecordPositionFrame ==
    [][\A p \in Procs :
        (IsRecordPosition(req'[p]) /\ req'[p] # req[p])
        => /\ bus'.exists = bus.exists
           /\ bus.exists
                => /\ bus'.currentStationId = bus.currentStationId
                   /\ bus'.status = bus.status
                   /\ bus'.route.stations = bus.route.stations
                   /\ bus' = [bus EXCEPT !.currentLocation = bus'.currentLocation,
                                         !.lastUpdateTime = bus'.lastUpdateTime,
                                         !.route.estimatedTime = bus'.route.estimatedTime]]_vars

\* a position report has saved: location, timestamp and estimated time are new, the
\* current stop A, the status and the route are those of the start
C20_Witness ==
    \E p \in Procs :
        /\ IsRecordPosition(req[p])
        /\ req[p].wrote
        /\ req[p].eta = 170
        /\ bus.exists
        /\ bus.currentLocation = <<20, 10>>
        /\ bus.lastUpdateTime = 1
        /\ bus.route.estimatedTime = 3
        /\ bus.currentStationId = 1
        /\ bus.status = "INACTIVE"
        /\ bus.route.stations = FullRoute

====
